---- MODULE Spec2Model ----
(***************************************************************************)
(* Model of the address enrichment pipeline: main (wiring and shutdown),   *)
(* atmbWorker (discovery), smartyWorker (enrichment with retry/backoff),   *)
(* APIManager (credential pool), and the two CSV sinks.                    *)
(***************************************************************************)
EXTENDS Integers, Sequences, FiniteSets, TLC

---------------------------------------------------------------------------
(* Bounds of the model *)

\* largest number of unique states returned by getState()
NumTargets == 3
\* largest number of addresses getStateDetail() returns for one state
MaxAddrPerTarget == 1
\* smartyWorker goroutines (10 in main, scaled down)
numScrapyWorkers == 2
\* atmbWorker goroutines (5 in main, scaled down)
numATMBWorkers == 2
\* capacity of the jobs / results / failedJobs channels (1000 in main, scaled down)
ChanCap == 1
\* largest APIManager.maxUsage (1000 in NewAPIManager, scaled down)
MaxQuota == 2
\* largest number of credentials loadCredentialsFromFile returns
MaxLoaded == 1
\* largest number of credentials the user enters at the prompts of one run
MaxSupply == 1
\* largest number of credentials one call of getAdditionalCredentialsFromUser returns
MaxPrompt == 1
\* the retry scenarios: states to scrape and credentials in the file
RetryTargets == 2
RetryLoaded == 5

(* Program constants *)
maxRetries == 4
initialBackoff == 2

---------------------------------------------------------------------------
Addrs == 1 .. (NumTargets * MaxAddrPerTarget)
Smarty == 1 .. numScrapyWorkers
Atmb == 1 .. numATMBWorkers
NoAddr == 0
Min(a, b) == IF a < b THEN a ELSE b

\* the i-th address of a state's page
AddrOf(t, i) == (t - 1) * MaxAddrPerTarget + i

VARIABLES
    apiManager,     \* [credentials, current, usageCount, maxUsage]
    mutex,          \* 0 = unlocked, w = held by smartyWorker w (across the prompt)
    stateChan, stateChanClosed,
    jobs, jobsClosed,
    results, resultsClosed,
    failedJobs, failedJobsClosed,
    states,         \* the list getState() returned
    userSupply,     \* credentials the user can still enter at the prompt
    mainPc, dispatched, savedCredentials,
    atmbPc, atmbPending,
    pc, addr, attempt, cred, err,   \* smartyWorker: position and loop locals
    shutdownOnce, discPc, exhPc, watcherGot,
    csvPc, written, failedWritten,
    panicked,
    obs             \* observations of the run, read by the properties only

poolVars == <<apiManager, mutex>>
chanVars == <<stateChan, stateChanClosed, jobs, jobsClosed, results, resultsClosed,
              failedJobs, failedJobsClosed>>
mainVars == <<mainPc, dispatched, savedCredentials>>
atmbVars == <<atmbPc, atmbPending>>
smartyVars == <<pc, addr, attempt, cred, err>>
watchVars == <<shutdownOnce, discPc, exhPc, watcherGot>>
sinkVars == <<csvPc, written, failedWritten>>
envVars == <<states, userSupply>>
vars == <<poolVars, chanVars, mainVars, atmbVars, smartyVars, watchVars, sinkVars,
          envVars, panicked, obs>>

---------------------------------------------------------------------------
(* APIManager *)

\* a credential is identified by its position in the file / prompt order
NewCreds(from, k) == [i \in 1 .. k |-> from + i]

NewAPIManager(credentials) ==
    [credentials |-> credentials, current |-> 0, usageCount |-> 0, maxUsage |-> MaxQuota]

\* rotate: m.current++; m.usageCount = 0

rotate(m) ==
    [m EXCEPT !.current = m.current + 1, !.usageCount = 0]

\* a quota check that lets a credential be used once more than its quota
quotaCheckStrict(m) ==
    IF m.usageCount > m.maxUsage /\ m.current < Len(m.credentials)
    THEN rotate(m) ELSE m

\* GetCredentials up to the exhaustion check: rotate when the quota is reached
quotaCheck(m) ==
    IF m.usageCount >= m.maxUsage /\ m.current < Len(m.credentials)
    THEN rotate(m) ELSE m

\* does GetCredentials have to ask the user for more credentials?
needsPrompt(m) == m.current >= Len(m.credentials)

\* a tail of GetCredentials that forgets to count the use
serveNoCount(m) ==
    [m |-> m, cred |-> m.credentials[m.current + 1], ok |-> TRUE]

\* the tail of GetCredentials: cred := m.credentials[m.current]; m.usageCount++
serve(m) ==
    [m |-> [m EXCEPT !.usageCount = m.usageCount + 1],
     cred |-> m.credentials[m.current + 1], ok |-> TRUE]

\* a GetCredentials that starts over at the first credential after a prompt
afterPromptRestart(m, newCredentials) ==
    IF Len(newCredentials) = 0
    THEN [m |-> m, cred |-> 0, ok |-> FALSE]
    ELSE serve([m EXCEPT !.credentials = m.credentials \o newCredentials,
                         !.current = 0, !.usageCount = 0])

\* GetCredentials once getAdditionalCredentialsFromUser has returned newCredentials
afterPrompt(m, newCredentials) ==
    IF Len(newCredentials) = 0
    THEN [m |-> m, cred |-> 0, ok |-> FALSE]
    ELSE serve([m EXCEPT !.credentials = m.credentials \o newCredentials])

InvalidateCurrent(m) ==
    IF m.current >= Len(m.credentials) THEN m ELSE rotate(m)

\* a pool operation that does not take the mutex
LockSkipped == TRUE

\* m.mutex.Lock() can return: no goroutine holds the mutex
Lock == mutex = 0

\* a snapshot of the credentials not yet consumed only
GetRemainingCredentials(m) == SubSeq(m.credentials, m.current + 1, Len(m.credentials))

GetAllCredentials(m) == m.credentials

---------------------------------------------------------------------------
(* Initial state: main up to and including the start of both worker pools *)

NoDrop == [addr |-> NoAddr, invCalls |-> 0, calls |-> 0]

\* the observations of a run in which nothing has happened; n credentials loaded
NoObs(n) ==
    [closeCount |-> 0,                     \* executions of close(jobs)
     pushed |-> {},                        \* addresses sent on jobs
     deqCount |-> [a \in Addrs |-> 0],     \* receives from jobs, per address
     sentResults |-> [a \in Addrs |-> 0],  \* sends on results, per address
     sentFailed |-> [a \in Addrs |-> 0],   \* sends on failedJobs, per address
     reason |-> [a \in Addrs |-> "none"],  \* why it was sent on failedJobs
     dropped |-> {},                       \* given up after the last retry
     lastDrop |-> NoDrop,                  \* the counts of the latest give-up
     slept |-> [w \in Smarty |-> <<>>],    \* sleeps for the current address
     invCalls |-> [w \in Smarty |-> 0],    \* InvalidateCurrent calls for it
     calls |-> [w \in Smarty |-> 0],       \* SmartyInfo calls for it
     loaded |-> n,                         \* credentials loaded from the file
     allOK |-> TRUE,                       \* every SmartyInfo call so far returned nil
     acquires |-> 0,                       \* GetCredentials calls while allOK
     prompts |-> 0,                        \* ... that asked the user
     firstPromptAt |-> 0,                  \* the number of the first one that asked
     lastInvalidated |-> 0,                \* credential the latest pool call
                                           \* invalidated for, 0 if it was no
                                           \* InvalidateCurrent
     served |-> <<>>,                      \* times GetCredentials returned
                                           \* each credential
     declinedAt |-> -1]                    \* len(credentials) when the latest
                                           \* prompt returned nothing, else -1

\* main has loaded `loaded` credentials and `targets` states; the user will enter
\* at most `supply` credentials
InitWith(targets, loaded, supply) ==
    /\ states = [i \in 1 .. targets |-> i]
    /\ userSupply = supply
    /\ \E n \in {loaded}, quota \in 1 .. MaxQuota :
          /\ apiManager = [NewAPIManager(NewCreds(0, n)) EXCEPT !.maxUsage = quota]
          /\ obs = NoObs(n)
    /\ mutex = 0
    /\ stateChan = <<>> /\ stateChanClosed = FALSE
    /\ jobs = <<>> /\ jobsClosed = FALSE
    /\ results = <<>> /\ resultsClosed = FALSE
    /\ failedJobs = <<>> /\ failedJobsClosed = FALSE
    /\ mainPc = "dispatch" /\ dispatched = 0 /\ savedCredentials = <<>>
    /\ atmbPc = [p \in Atmb |-> "recv"]
    /\ atmbPending = [p \in Atmb |-> <<>>]
    /\ pc = [w \in Smarty |-> "recv"]
    /\ addr = [w \in Smarty |-> NoAddr]
    /\ attempt = [w \in Smarty |-> 0]
    /\ cred = [w \in Smarty |-> 0]
    /\ err = [w \in Smarty |-> "nil"]
    /\ shutdownOnce = FALSE
    /\ discPc = "idle" /\ exhPc = "idle" /\ watcherGot = <<>>
    /\ csvPc = "idle" /\ written = <<>> /\ failedWritten = <<>>
    /\ panicked = FALSE

Init ==
    \E targets \in 0 .. NumTargets, loaded \in 0 .. MaxLoaded, supply \in 0 .. MaxSupply :
        InitWith(targets, loaded, supply)

\* the retry scenarios: the file holds credentials for every retry
RetryInit ==
    \E targets \in 1 .. RetryTargets : InitWith(targets, RetryLoaded, 0)

\* the process is alive: no goroutine has panicked and main has not returned
Running == ~panicked /\ mainPc # "done"

---------------------------------------------------------------------------
(* main *)

\* for _, state := range states { stateChan <- state }
Dispatch ==
    /\ Running /\ mainPc = "dispatch" /\ dispatched < Len(states)
    /\ stateChan' = Append(stateChan, states[dispatched + 1])
    /\ dispatched' = dispatched + 1
    /\ UNCHANGED <<envVars, poolVars, stateChanClosed, jobs, jobsClosed, results, resultsClosed,
                   failedJobs, failedJobsClosed, mainPc, savedCredentials, atmbVars,
                   smartyVars, watchVars, sinkVars, panicked, obs>>

\* close(stateChan)
CloseStateChan ==
    /\ Running /\ mainPc = "dispatch" /\ dispatched = Len(states)
    /\ stateChanClosed' = TRUE
    /\ mainPc' = "spawn"
    /\ UNCHANGED <<envVars, poolVars, stateChan, jobs, jobsClosed, results, resultsClosed,
                   failedJobs, failedJobsClosed, dispatched, savedCredentials, atmbVars,
                   smartyVars, watchVars, sinkVars, panicked, obs>>

\* the three go statements: both watchers and the CSV writer
StartWatchers ==
    /\ Running /\ mainPc = "spawn"
    /\ discPc' = "wait" /\ exhPc' = "wait" /\ csvPc' = "run"
    /\ mainPc' = "waitScrapy"
    /\ UNCHANGED <<envVars, poolVars, chanVars, dispatched, savedCredentials, atmbVars, smartyVars,
                   shutdownOnce, watcherGot, written, failedWritten, panicked, obs>>

\* close(results); close(failedJobs) without scrapyWg.Wait()
CloseResultStreamsEarly ==
    /\ Running /\ mainPc = "waitScrapy"
    /\ resultsClosed' = TRUE /\ failedJobsClosed' = TRUE
    /\ mainPc' = "writeFailed"
    /\ UNCHANGED <<envVars, poolVars, stateChan, stateChanClosed, jobs, jobsClosed, results,
                   failedJobs, dispatched, savedCredentials, atmbVars, smartyVars,
                   watchVars, sinkVars, panicked, obs>>

\* scrapyWg.Wait(); close(results); close(failedJobs)
CloseResultStreams ==
    /\ Running /\ mainPc = "waitScrapy"
    /\ \A w \in Smarty : pc[w] = "done"
    /\ resultsClosed' = TRUE /\ failedJobsClosed' = TRUE
    /\ mainPc' = "writeFailed"
    /\ UNCHANGED <<envVars, poolVars, stateChan, stateChanClosed, jobs, jobsClosed, results,
                   failedJobs, dispatched, savedCredentials, atmbVars, smartyVars,
                   watchVars, sinkVars, panicked, obs>>

\* writeFailedToCSV: for addr := range failedJobs
WriteFailedRecv ==
    /\ Running /\ mainPc = "writeFailed"
    /\ IF failedJobs # <<>>
       THEN /\ failedWritten' = Append(failedWritten, Head(failedJobs))
            /\ failedJobs' = Tail(failedJobs)
            /\ UNCHANGED mainPc
       ELSE /\ failedJobsClosed
            /\ mainPc' = "waitCsv"
            /\ UNCHANGED <<failedWritten, failedJobs>>
    /\ UNCHANGED <<envVars, poolVars, stateChan, stateChanClosed, jobs, jobsClosed, results,
                   resultsClosed, failedJobsClosed, dispatched, savedCredentials, atmbVars,
                   smartyVars, watchVars, csvPc, written, panicked, obs>>

\* csvWriterWg.Wait()
WaitCsvWriter ==
    /\ Running /\ mainPc = "waitCsv"
    /\ csvPc = "done"
    /\ mainPc' = "save"
    /\ UNCHANGED <<envVars, poolVars, chanVars, dispatched, savedCredentials, atmbVars, smartyVars,
                   watchVars, sinkVars, panicked, obs>>

\* finalCredentials := apiManager.GetAllCredentials(); saveCredentialsToFile(...)
SaveCredentials ==
    /\ Running /\ mainPc = "save"
    /\ Lock
    /\ savedCredentials' = GetAllCredentials(apiManager)
    /\ mainPc' = "done"
    /\ obs' = [obs EXCEPT !.lastInvalidated = 0]
    /\ UNCHANGED <<envVars, poolVars, chanVars, dispatched, atmbVars, smartyVars, watchVars,
                   sinkVars, panicked>>

---------------------------------------------------------------------------
(* atmbWorker *)

\* for state := range stateChan { addresses := getStateDetail(state) ... }
AtmbRecv(p) ==
    /\ Running /\ atmbPc[p] = "recv"
    /\ IF stateChan # <<>>
       THEN /\ stateChan' = Tail(stateChan)
            /\ \E k \in 0 .. MaxAddrPerTarget :
                  /\ atmbPending' = [atmbPending EXCEPT
                                       ![p] = [i \in 1 .. k |-> AddrOf(Head(stateChan), i)]]
                  /\ atmbPc' = [atmbPc EXCEPT ![p] = IF k = 0 THEN "recv" ELSE "push"]
       ELSE /\ stateChanClosed
            /\ atmbPc' = [atmbPc EXCEPT ![p] = "done"]
            /\ UNCHANGED <<stateChan, atmbPending>>
    /\ UNCHANGED <<envVars, poolVars, stateChanClosed, jobs, jobsClosed, results, resultsClosed,
                   failedJobs, failedJobsClosed, mainVars, smartyVars, watchVars,
                   sinkVars, panicked, obs>>

\* jobs <- &addresses[i]   (a send on a closed channel panics)
AtmbPush(p) ==
    /\ Running /\ atmbPc[p] = "push"
    /\ IF jobsClosed
       THEN /\ panicked' = TRUE
            /\ UNCHANGED <<envVars, jobs, obs, atmbVars>>
       ELSE /\ Len(jobs) < ChanCap
            /\ jobs' = Append(jobs, Head(atmbPending[p]))
            /\ obs' = [obs EXCEPT !.pushed = @ \cup {Head(atmbPending[p])}]
            /\ atmbPending' = [atmbPending EXCEPT ![p] = Tail(@)]
            /\ atmbPc' = [atmbPc EXCEPT
                            ![p] = IF Tail(atmbPending[p]) = <<>> THEN "recv" ELSE "push"]
            /\ UNCHANGED panicked
    /\ UNCHANGED <<envVars, poolVars, stateChan, stateChanClosed, jobsClosed, results, resultsClosed,
                   failedJobs, failedJobsClosed, mainVars, smartyVars, watchVars, sinkVars>>

---------------------------------------------------------------------------
(* smartyWorker *)

RECURSIVE Pow2(_)
Pow2(n) == IF n = 0 THEN 1 ELSE 2 * Pow2(n - 1)

\* a backoff that grows linearly
backoffLinear(a) == initialBackoff * a

\* backoffDuration := initialBackoff * time.Duration(1<<(attempt-1)), in seconds
backoffDuration(a) == initialBackoff * Pow2(a - 1)

\* the loop locals of one iteration of "for addr := range jobs" go out of scope
endIteration(w, next) ==
    /\ pc' = [pc EXCEPT ![w] = next]
    /\ addr' = [addr EXCEPT ![w] = NoAddr]
    /\ attempt' = [attempt EXCEPT ![w] = 0]
    /\ cred' = [cred EXCEPT ![w] = 0]
    /\ err' = [err EXCEPT ![w] = "nil"]

\* the observations kept for the worker's current address
forgetAddress(o, w) ==
    [o EXCEPT !.slept[w] = <<>>, !.invCalls[w] = 0, !.calls[w] = 0]

\* the observations after GetCredentials has returned credential c
countServed(o, c) ==
    [o EXCEPT !.served = [i \in 1 .. (IF c > Len(@) THEN c ELSE Len(@)) |->
                            (IF i <= Len(@) THEN @[i] ELSE 0) + (IF i = c THEN 1 ELSE 0)]]

\* for addr := range jobs
SmartyRecv(w) ==
    /\ Running /\ pc[w] = "recv"
    /\ IF jobs # <<>>
       THEN /\ addr' = [addr EXCEPT ![w] = Head(jobs)]
            /\ jobs' = Tail(jobs)
            /\ pc' = [pc EXCEPT ![w] = "acquire"]
            /\ obs' = [obs EXCEPT !.deqCount[Head(jobs)] = @ + 1]
       ELSE /\ jobsClosed
            /\ pc' = [pc EXCEPT ![w] = "done"]
            /\ UNCHANGED <<addr, jobs, obs>>
    /\ UNCHANGED <<envVars, poolVars, stateChan, stateChanClosed, jobsClosed, results, resultsClosed,
                   failedJobs, failedJobsClosed, mainVars, atmbVars, attempt, cred, err,
                   watchVars, sinkVars, panicked>>

\* cred, ok := apiManager.GetCredentials(): from Lock() to the return, or to the
\* call of getAdditionalCredentialsFromUser, which is made holding the mutex
Acquire(w) ==
    /\ Running /\ pc[w] = "acquire"
    /\ Lock
    /\ LET q == quotaCheck(apiManager)
           o == [obs EXCEPT !.lastInvalidated = 0,
                            !.acquires = IF obs.allOK THEN @ + 1 ELSE @]
       IN
         IF needsPrompt(q)
         THEN /\ apiManager' = q
              /\ mutex' = w
              /\ pc' = [pc EXCEPT ![w] = "prompting"]
              /\ obs' = [o EXCEPT
                           !.prompts = IF obs.allOK THEN @ + 1 ELSE @,
                           !.firstPromptAt = IF obs.allOK /\ obs.prompts = 0
                                             THEN obs.acquires + 1 ELSE @]
              /\ UNCHANGED cred
         ELSE /\ apiManager' = serve(q).m
              /\ cred' = [cred EXCEPT ![w] = serve(q).cred]
              /\ pc' = [pc EXCEPT ![w] = "call"]
              /\ obs' = countServed(o, serve(q).cred)
              /\ UNCHANGED mutex
    /\ UNCHANGED <<envVars, chanVars, mainVars, atmbVars, addr, attempt, err, watchVars, sinkVars,
                   panicked>>

\* getAdditionalCredentialsFromUser returns k new credentials; GetCredentials
\* appends and serves them, or returns ok=false when k = 0; Unlock()
PromptReturn(w) ==
    /\ Running /\ pc[w] = "prompting"
    /\ mutex = w
    /\ \E k \in 0 .. Min(MaxPrompt, userSupply) :
         LET r == afterPrompt(apiManager, NewCreds(Len(apiManager.credentials), k)) IN
           /\ apiManager' = r.m
           /\ userSupply' = userSupply - k
           /\ IF r.ok
              THEN /\ cred' = [cred EXCEPT ![w] = r.cred]
                   /\ pc' = [pc EXCEPT ![w] = "call"]
                   /\ obs' = countServed(obs, r.cred)
              ELSE /\ pc' = [pc EXCEPT ![w] = "sendExhausted"]
                   /\ obs' = [obs EXCEPT !.declinedAt = Len(apiManager.credentials)]
                   /\ UNCHANGED cred
    /\ mutex' = 0
    /\ UNCHANGED <<chanVars, mainVars, atmbVars, addr, attempt, err, watchVars, sinkVars,
                   states, panicked>>

\* err := SmartyInfo(client, addr): nil, ErrUnknownAddress or any other error
Call(w) ==
    /\ Running /\ pc[w] = "call"
    /\ \E e \in {"nil", "unknown", "transient"} :
          /\ err' = [err EXCEPT ![w] = e]
          /\ obs' = IF e = "nil"
                    THEN [obs EXCEPT !.calls[w] = @ + 1]
                    ELSE [obs EXCEPT !.calls[w] = @ + 1, !.allOK = FALSE, !.acquires = 0,
                                     !.prompts = 0, !.firstPromptAt = 0]
    /\ pc' = [pc EXCEPT ![w] = "classify"]
    /\ UNCHANGED <<envVars, poolVars, chanVars, mainVars, atmbVars, addr, attempt, cred,
                   watchVars, sinkVars, panicked>>

\* if !ok { failedJobs <- addr; return }   (a send on a closed channel panics)
SendExhausted(w) ==
    /\ Running /\ pc[w] = "sendExhausted"
    /\ IF failedJobsClosed
       THEN /\ panicked' = TRUE
            /\ UNCHANGED <<envVars, failedJobs, obs, smartyVars>>
       ELSE /\ Len(failedJobs) < ChanCap
            /\ failedJobs' = Append(failedJobs, addr[w])
            /\ obs' = [forgetAddress(obs, w) EXCEPT !.sentFailed[addr[w]] = @ + 1,
                                                    !.reason[addr[w]] = "exhausted"]
            /\ endIteration(w, "done")
            /\ UNCHANGED panicked
    /\ UNCHANGED <<envVars, poolVars, stateChan, stateChanClosed, jobs, jobsClosed, results,
                   resultsClosed, failedJobsClosed, mainVars, atmbVars, watchVars, sinkVars>>

\* a retry loop that stops one attempt early (attempt < maxRetries)
retryOrGiveUpEarly(w, o) ==
    IF attempt[w] + 1 < maxRetries
    THEN /\ attempt' = [attempt EXCEPT ![w] = @ + 1]
         /\ pc' = [pc EXCEPT ![w] = "acquire"]
         /\ obs' = [o EXCEPT !.slept[w] = Append(@, backoffDuration(attempt[w] + 1))]
         /\ UNCHANGED <<addr, cred, err>>
    ELSE /\ endIteration(w, "recv")
         /\ obs' = [forgetAddress(o, w) EXCEPT
                      !.dropped = @ \cup {addr[w]},
                      !.lastDrop = [addr |-> addr[w], invCalls |-> o.invCalls[w],
                                    calls |-> o.calls[w]]]

\* the end of a failed attempt: attempt++; while attempt <= maxRetries the worker
\* sleeps backoffDuration and tries again, otherwise it logs that it gives the
\* address up (success is false) and goes on with the next job
retryOrGiveUp(w, o) ==
    IF attempt[w] + 1 <= maxRetries
    THEN /\ attempt' = [attempt EXCEPT ![w] = @ + 1]
         /\ pc' = [pc EXCEPT ![w] = "acquire"]
         /\ obs' = [o EXCEPT !.slept[w] = Append(@, backoffDuration(attempt[w] + 1))]
         /\ UNCHANGED <<addr, cred, err>>
    ELSE /\ endIteration(w, "recv")
         /\ obs' = [forgetAddress(o, w) EXCEPT
                      !.dropped = @ \cup {addr[w]},
                      !.lastDrop = [addr |-> addr[w], invCalls |-> o.invCalls[w],
                                    calls |-> o.calls[w]]]

\* any other error: log; apiManager.InvalidateCurrent(); then the loop's next
\* iteration up to the call of GetCredentials, or the give-up log after the loop
Invalidate(w) ==
    /\ Running /\ pc[w] = "classify" /\ err[w] = "transient"
    /\ Lock
    /\ apiManager' = InvalidateCurrent(apiManager)
    /\ retryOrGiveUp(w, [obs EXCEPT !.invCalls[w] = @ + 1, !.lastInvalidated = cred[w]])
    /\ UNCHANGED <<envVars, mutex, chanVars, mainVars, atmbVars, watchVars, sinkVars, panicked>>

\* results <- addr without the break: control falls through to InvalidateCurrent
SendResultNoBreak(w) ==
    /\ Running /\ pc[w] = "classify" /\ err[w] = "nil"
    /\ ~resultsClosed /\ Len(results) < ChanCap
    /\ mutex = 0
    /\ results' = Append(results, addr[w])
    /\ apiManager' = InvalidateCurrent(apiManager)
    /\ retryOrGiveUp(w, [obs EXCEPT !.sentResults[addr[w]] = @ + 1,
                                    !.invCalls[w] = @ + 1, !.lastInvalidated = cred[w]])
    /\ UNCHANGED <<envVars, mutex, stateChan, stateChanClosed, jobs, jobsClosed, resultsClosed,
                   failedJobs, failedJobsClosed, mainVars, atmbVars, watchVars, sinkVars,
                   panicked>>

\* if err == nil { results <- addr; success = true; break }
SendResult(w) ==
    /\ Running /\ pc[w] = "classify" /\ err[w] = "nil"
    /\ IF resultsClosed
       THEN /\ panicked' = TRUE
            /\ UNCHANGED <<envVars, results, obs, smartyVars>>
       ELSE /\ Len(results) < ChanCap
            /\ results' = Append(results, addr[w])
            /\ obs' = [forgetAddress(obs, w) EXCEPT !.sentResults[addr[w]] = @ + 1]
            /\ endIteration(w, "recv")
            /\ UNCHANGED panicked
    /\ UNCHANGED <<envVars, poolVars, stateChan, stateChanClosed, jobs, jobsClosed, resultsClosed,
                   failedJobs, failedJobsClosed, mainVars, atmbVars, watchVars, sinkVars>>

\* failedJobs <- addr without the break: control falls through to InvalidateCurrent
SendFailedNoBreak(w) ==
    /\ Running /\ pc[w] = "classify" /\ err[w] = "unknown"
    /\ ~failedJobsClosed /\ Len(failedJobs) < ChanCap
    /\ mutex = 0
    /\ failedJobs' = Append(failedJobs, addr[w])
    /\ apiManager' = InvalidateCurrent(apiManager)
    /\ retryOrGiveUp(w, [obs EXCEPT !.sentFailed[addr[w]] = @ + 1,
                                    !.reason[addr[w]] = "unknown",
                                    !.invCalls[w] = @ + 1, !.lastInvalidated = cred[w]])
    /\ UNCHANGED <<envVars, mutex, stateChan, stateChanClosed, jobs, jobsClosed, results,
                   resultsClosed, failedJobsClosed, mainVars, atmbVars, watchVars, sinkVars,
                   panicked>>

\* if errors.Is(err, ErrUnknownAddress) { failedJobs <- addr; success = true; break }
SendFailed(w) ==
    /\ Running /\ pc[w] = "classify" /\ err[w] = "unknown"
    /\ IF failedJobsClosed
       THEN /\ panicked' = TRUE
            /\ UNCHANGED <<envVars, failedJobs, obs, smartyVars>>
       ELSE /\ Len(failedJobs) < ChanCap
            /\ failedJobs' = Append(failedJobs, addr[w])
            /\ obs' = [forgetAddress(obs, w) EXCEPT !.sentFailed[addr[w]] = @ + 1,
                                                    !.reason[addr[w]] = "unknown"]
            /\ endIteration(w, "recv")
            /\ UNCHANGED panicked
    /\ UNCHANGED <<envVars, poolVars, stateChan, stateChanClosed, jobs, jobsClosed, results,
                   resultsClosed, failedJobsClosed, mainVars, atmbVars, watchVars, sinkVars>>

---------------------------------------------------------------------------
(* Shutdown coordination and sinks *)

\* close(jobs); closing a closed channel panics
initiateShutdown ==
    /\ obs' = [obs EXCEPT !.closeCount = @ + 1]
    /\ jobsClosed' = TRUE
    /\ panicked' = jobsClosed

\* initiateShutdown called without the sync.Once
OnceDoUnguarded ==
    /\ shutdownOnce' = TRUE
    /\ initiateShutdown

\* shutdownOnce.Do(initiateShutdown)
OnceDo ==
    IF shutdownOnce
    THEN UNCHANGED <<shutdownOnce, obs, jobsClosed, panicked>>
    ELSE /\ shutdownOnce' = TRUE
         /\ initiateShutdown

\* atmbWg.Wait()
DiscWait ==
    /\ Running /\ discPc = "wait"
    /\ \A p \in Atmb : atmbPc[p] = "done"
    /\ discPc' = "gate"
    /\ UNCHANGED <<envVars, poolVars, chanVars, mainVars, atmbVars, smartyVars, shutdownOnce,
                   exhPc, watcherGot, sinkVars, panicked, obs>>

\* shutdownOnce.Do(initiateShutdown) of the discovery-complete watcher
DiscGate ==
    /\ Running /\ discPc = "gate"
    /\ OnceDo
    /\ discPc' = "done"
    /\ UNCHANGED <<envVars, poolVars, stateChan, stateChanClosed, jobs, results, resultsClosed,
                   failedJobs, failedJobsClosed, mainVars, atmbVars, smartyVars,
                   exhPc, watcherGot, sinkVars>>

\* <-failedJobs   (a receive on a closed, empty channel returns nil)
ExhRecv ==
    /\ Running /\ exhPc = "wait"
    /\ IF failedJobs # <<>>
       THEN /\ watcherGot' = Append(watcherGot, Head(failedJobs))
            /\ failedJobs' = Tail(failedJobs)
       ELSE /\ failedJobsClosed
            /\ UNCHANGED <<watcherGot, failedJobs>>
    /\ exhPc' = "gate"
    /\ UNCHANGED <<envVars, poolVars, stateChan, stateChanClosed, jobs, jobsClosed, results,
                   resultsClosed, failedJobsClosed, mainVars, atmbVars, smartyVars,
                   shutdownOnce, discPc, sinkVars, panicked, obs>>

\* shutdownOnce.Do(initiateShutdown) of the exhaustion watcher
ExhGate ==
    /\ Running /\ exhPc = "gate"
    /\ OnceDo
    /\ exhPc' = "done"
    /\ UNCHANGED <<envVars, poolVars, stateChan, stateChanClosed, jobs, results, resultsClosed,
                   failedJobs, failedJobsClosed, mainVars, atmbVars, smartyVars,
                   discPc, watcherGot, sinkVars>>

\* writeToCSV: for addr := range results
CsvRecv ==
    /\ Running /\ csvPc = "run"
    /\ IF results # <<>>
       THEN /\ written' = Append(written, Head(results))
            /\ results' = Tail(results)
            /\ UNCHANGED csvPc
       ELSE /\ resultsClosed
            /\ csvPc' = "done"
            /\ UNCHANGED <<written, results>>
    /\ UNCHANGED <<envVars, poolVars, stateChan, stateChanClosed, jobs, jobsClosed, resultsClosed,
                   failedJobs, failedJobsClosed, mainVars, atmbVars, smartyVars,
                   watchVars, failedWritten, panicked, obs>>

---------------------------------------------------------------------------
Next ==
    \/ Dispatch \/ CloseStateChan \/ StartWatchers \/ CloseResultStreams
    \/ WriteFailedRecv \/ WaitCsvWriter \/ SaveCredentials
    \/ \E p \in Atmb : AtmbRecv(p)
    \/ \E p \in Atmb : AtmbPush(p)
    \/ \E w \in Smarty : SmartyRecv(w)
    \/ \E w \in Smarty : Acquire(w)
    \/ \E w \in Smarty : PromptReturn(w)
    \/ \E w \in Smarty : Call(w)
    \/ \E w \in Smarty : SendResult(w)
    \/ \E w \in Smarty : SendFailed(w)
    \/ \E w \in Smarty : SendExhausted(w)
    \/ \E w \in Smarty : Invalidate(w)
    \/ DiscWait \/ DiscGate \/ ExhRecv \/ ExhGate \/ CsvRecv

Spec == Init /\ [][Next]_vars

RetrySpec == RetryInit /\ [][Next]_vars

---------------------------------------------------------------------------
(* The APIManager under concurrent callers: every smartyWorker holds a job and
   calls GetCredentials and InvalidateCurrent as its retry loop does, while one
   more goroutine calls GetAllCredentials at a moment of its own choosing. *)

PoolInit ==
    /\ states = <<>>
    /\ \E supply \in 0 .. MaxSupply : userSupply = supply
    /\ \E n \in 0 .. MaxLoaded, quota \in 1 .. MaxQuota :
          /\ apiManager = [NewAPIManager(NewCreds(0, n)) EXCEPT !.maxUsage = quota]
          /\ obs = [NoObs(n) EXCEPT !.pushed = Smarty,
                                    !.deqCount = [a \in Addrs |-> IF a \in Smarty THEN 1 ELSE 0]]
    /\ mutex = 0
    /\ stateChan = <<>> /\ stateChanClosed = TRUE
    /\ jobs = <<>> /\ jobsClosed = TRUE
    /\ results = <<>> /\ resultsClosed = FALSE
    /\ failedJobs = <<>> /\ failedJobsClosed = FALSE
    /\ mainPc = "save" /\ dispatched = 0 /\ savedCredentials = <<>>
    /\ atmbPc = [p \in Atmb |-> "done"]
    /\ atmbPending = [p \in Atmb |-> <<>>]
    /\ pc = [w \in Smarty |-> "acquire"]
    /\ addr = [w \in Smarty |-> w]
    /\ attempt = [w \in Smarty |-> 0]
    /\ cred = [w \in Smarty |-> 0]
    /\ err = [w \in Smarty |-> "nil"]
    /\ shutdownOnce = TRUE
    /\ discPc = "done" /\ exhPc = "wait" /\ watcherGot = <<>>
    /\ csvPc = "run" /\ written = <<>> /\ failedWritten = <<>>
    /\ panicked = FALSE

PoolNext ==
    \/ SaveCredentials
    \/ \E w \in Smarty : SmartyRecv(w)
    \/ \E w \in Smarty : Acquire(w)
    \/ \E w \in Smarty : PromptReturn(w)
    \/ \E w \in Smarty : Call(w)
    \/ \E w \in Smarty : SendResult(w)
    \/ \E w \in Smarty : SendFailed(w)
    \/ \E w \in Smarty : SendExhausted(w)
    \/ \E w \in Smarty : Invalidate(w)
    \/ ExhRecv \/ ExhGate \/ CsvRecv

PoolSpec == PoolInit /\ [][PoolNext]_vars

---------------------------------------------------------------------------
(* Properties *)

\* the terminal places an address has reached: the success stream, the failure
\* stream, the logged give-up
Outcomes(a) ==
    obs.sentResults[a] + obs.sentFailed[a] + (IF a \in obs.dropped THEN 1 ELSE 0)

InFlight(w) == addr[w] # NoAddr

\* C1: every address pushed onto the job queue ends in exactly one terminal place
\* (success stream, failure stream or the logged give-up); as a final result: when
\* main has returned, every pushed address has exactly one outcome.
C1_EveryAddressTerminates ==
    mainPc = "done" => \A a \in obs.pushed : Outcomes(a) = 1

\* C2: no address is processed twice: it is received from the job queue at most
\* once, never held by two workers at once, and sent at most once in total on
\* the success and failure streams.
C2_NoAddressProcessedTwice ==
    /\ \A a \in Addrs : obs.deqCount[a] <= 1
    /\ \A w1, w2 \in Smarty : (w1 # w2 /\ InFlight(w1)) => addr[w1] # addr[w2]
    /\ \A a \in Addrs : obs.sentResults[a] + obs.sentFailed[a] <= 1

\* two workers hold different addresses after a third one has been emitted
C2_Witness ==
    /\ \E w1, w2 \in Smarty : w1 # w2 /\ InFlight(w1) /\ InFlight(w2)
    /\ \E a \in Addrs : obs.sentResults[a] + obs.sentFailed[a] = 1

\* C3: the job queue is closed at most once, and a watcher that arrives at the
\* gate after it has fired performs no close.
C3_JobsClosedAtMostOnce ==
    /\ [](obs.closeCount <= 1)
    /\ [][shutdownOnce => obs'.closeCount = obs.closeCount]_vars

\* both watchers have passed the gate and the queue was closed once
C3_Witness ==
    discPc = "done" /\ exhPc = "done" /\ obs.closeCount = 1

\* C4: the job queue is closed only when all discovery workers have finished or
\* some enrichment worker has reported credentials-exhausted.
C4_ClosedOnlyOnTrigger ==
    jobsClosed =>
        \/ \A p \in Atmb : atmbPc[p] = "done"
        \/ \E a \in Addrs : obs.reason[a] = "exhausted"

\* the step of worker w in which it calls InvalidateCurrent
InvalidateStep(w) ==
    pc[w] = "classify" /\ err[w] = "transient" /\ pc'[w] # "classify"

\* C5: when workers that acquired the same credential call InvalidateCurrent one
\* after the other with no other pool call in between, only the first call
\* rotates: the later ones leave the cursor and the usage counter unchanged.
C5_InvalidateRotatesOnce ==
    [][\A w \in Smarty :
          (InvalidateStep(w) /\ obs.lastInvalidated = cred[w])
              => (/\ apiManager'.current = apiManager.current
                  /\ apiManager'.usageCount = apiManager.usageCount)]_vars

\* C6: no step decreases the credential pool's cursor.
C6_CursorNeverDecreases ==
    [][apiManager'.current >= apiManager.current]_vars

\* the cursor has moved past two credentials, one of them entered at the prompt
C6_Witness ==
    apiManager.current = 2 /\ Len(apiManager.credentials) = 2 /\ obs.loaded = 1

Enriched == {a \in Addrs : obs.sentResults[a] >= 1}
Validating == {w \in Smarty : pc[w] \in {"call", "classify"}}
ExhaustedReported == \E a \in Addrs : obs.reason[a] = "exhausted"

UnknownStep(w) ==
    pc[w] = "classify" /\ err[w] = "unknown" /\ pc'[w] # "classify"

\* C8: when SmartyInfo returns ErrUnknownAddress the address is sent once on
\* failedJobs, no further attempt is made, and neither the call nor its handling
\* touches the pool: cursor and usage counter stay as they were, InvalidateCurrent
\* is not called.
C8_UnknownAddressNotRetried ==
    /\ [](\A a \in Addrs : obs.reason[a] = "unknown" =>
              /\ obs.sentFailed[a] = 1 /\ obs.sentResults[a] = 0
              /\ a \notin obs.dropped
              /\ \A w \in Smarty : addr[w] # a)
    /\ [][\A w \in Smarty :
            /\ (pc[w] = "call" /\ err'[w] = "unknown" /\ pc'[w] = "classify")
                  => apiManager' = apiManager
            /\ UnknownStep(w)
                  => /\ apiManager' = apiManager
                     /\ obs'.lastInvalidated = obs.lastInvalidated
                     /\ pc'[w] = "recv"
                     /\ obs'.sentFailed[addr[w]] = 1
                     /\ obs'.reason[addr[w]] = "unknown"]_vars

\* an address was classified unknown after its credential had been served
C8_Witness ==
    /\ \E a \in Addrs : obs.reason[a] = "unknown"
    /\ apiManager.usageCount >= 1

\* C9 as stated: an address given up after maxRetries = 4 retries has had
\* InvalidateCurrent called exactly 4 times.
C9_InvalidatedFourTimes ==
    obs.lastDrop.addr # NoAddr => obs.lastDrop.invCalls = maxRetries

\* C9 (amended): an address whose every attempt failed with a transient error is
\* sent on neither stream, the worker goes on to receive the next job, and
\* InvalidateCurrent was called maxRetries + 1 = 5 times for it, once after each
\* of the 5 attempts.
C9_DroppedAfterFiveInvalidations ==
    /\ [](obs.lastDrop.addr # NoAddr =>
              /\ obs.lastDrop.invCalls = maxRetries + 1
              /\ obs.lastDrop.calls = maxRetries + 1)
    /\ [](\A a \in obs.dropped : obs.sentResults[a] = 0 /\ obs.sentFailed[a] = 0)
    /\ [][\A w \in Smarty :
            (InvalidateStep(w) /\ addr[w] \notin obs.dropped /\ addr[w] \in obs'.dropped)
                => (pc'[w] = "recv" /\ obs'.lastDrop.addr = addr[w])]_vars

\* an address was given up and its worker has taken the next job
C9_Witness ==
    /\ obs.lastDrop.addr # NoAddr
    /\ \E w \in Smarty : InFlight(w) /\ obs.lastDrop.addr \in obs.dropped

\* C10: no sleep precedes the first attempt, the i-th sleep lasts
\* initialBackoff * 2^(i-1), and an address gets at most maxRetries + 1 attempts.
C10_ExponentialBackoff ==
    \A w \in Smarty :
        /\ Len(obs.slept[w]) = attempt[w]
        /\ \A i \in 1 .. Len(obs.slept[w]) : obs.slept[w][i] = initialBackoff * 2 ^ (i - 1)
        /\ attempt[w] <= obs.calls[w] /\ obs.calls[w] <= attempt[w] + 1
        /\ attempt[w] <= maxRetries
        /\ obs.calls[w] <= maxRetries + 1

\* a worker has slept before each of the maxRetries retries and made the last attempt
C10_Witness ==
    \E w \in Smarty : Len(obs.slept[w]) = maxRetries /\ obs.calls[w] = maxRetries + 1

\* C11: closing the job queue after discovery discards nothing: every job queued
\* at the close is still received by an enrichment worker; as a final result: when
\* main has returned and the queue was closed by the discovery-complete watcher
\* (the exhaustion watcher has not passed the gate), no job is left in the queue.
C11_QueuedJobsDrained ==
    (mainPc = "done" /\ discPc = "done" /\ exhPc # "done") => jobs = <<>>

Elems(q) == {q[i] : i \in 1 .. Len(q)}

\* C12: no outcome is lost between the workers and the sinks; as a final result:
\* when main has returned, every address sent on failedJobs was written by
\* writeFailedToCSV and every address sent on results was written by writeToCSV.
C12_NoOutcomeLost ==
    mainPc = "done" =>
        \A a \in Addrs :
            /\ obs.sentFailed[a] >= 1 => a \in Elems(failedWritten)
            /\ obs.sentResults[a] >= 1 => a \in Elems(written)

\* C13: no discovery worker sends on the job queue after it was closed: no fault
\* has occurred with a discovery worker at its send and the queue closed.
C13_NoSendOnClosedJobs ==
    panicked => ~ \E p \in Atmb : atmbPc[p] = "push" /\ jobsClosed

\* the process has ended: main returned or a goroutine panicked
Terminated == mainPc = "done" \/ panicked

\* C14: the pipeline never deadlocks: in every state in which the process has not
\* ended, some goroutine can take a step.
C14_NoDeadlock == Terminated \/ ENABLED Next

\* C15: results and failedJobs are closed only after every enrichment worker has
\* returned, and no fault (a send on a closed channel) occurs once they are closed.
C15_StreamsClosedAfterWorkers ==
    /\ []((resultsClosed \/ failedJobsClosed) => \A w \in Smarty : pc[w] = "done")
    /\ [][(resultsClosed \/ failedJobsClosed)
              => /\ obs'.sentResults = obs.sentResults /\ obs'.sentFailed = obs.sentFailed
                 /\ pc' = pc]_vars

\* both streams were closed after workers had sent on each of them
C15_Witness ==
    /\ resultsClosed /\ failedJobsClosed
    /\ \E a \in Addrs : obs.sentResults[a] = 1
    /\ \E a \in Addrs : obs.sentFailed[a] = 1

\* C16: GetCredentials returns ok=false exactly when the cursor is past the end
\* and the prompt returned no credential; otherwise it returns the credential at
\* the cursor, which is a valid index; after a non-empty prompt the credential
\* returned is the first one appended and the usage counter has grown by one.
C16_AcquireContract ==
    /\ [](apiManager.current <= Len(apiManager.credentials))
    /\ [][\A w \in Smarty :
            /\ (pc[w] = "acquire" /\ pc'[w] = "call")
                  => /\ apiManager'.credentials = apiManager.credentials
                     /\ apiManager'.current < Len(apiManager'.credentials)
                     /\ cred'[w] = apiManager'.credentials[apiManager'.current + 1]
                     /\ apiManager'.usageCount >= 1
            /\ (pc[w] = "acquire" /\ pc'[w] = "prompting")
                  => apiManager'.current >= Len(apiManager'.credentials)
            /\ (pc[w] = "prompting" /\ pc'[w] = "call")
                  => /\ Len(apiManager'.credentials) > Len(apiManager.credentials)
                     /\ cred'[w] = apiManager'.credentials[Len(apiManager.credentials) + 1]
                     /\ apiManager'.current = apiManager.current
                     /\ apiManager'.current < Len(apiManager'.credentials)
                     /\ cred'[w] = apiManager'.credentials[apiManager'.current + 1]
                     /\ apiManager'.usageCount = apiManager.usageCount + 1
            /\ (pc[w] = "prompting" /\ pc'[w] # "prompting")
                  => (pc'[w] = "sendExhausted"
                        <=> apiManager'.credentials = apiManager.credentials)
            /\ (pc[w] = "prompting" /\ pc'[w] = "sendExhausted")
                  => apiManager' = apiManager
            /\ (pc[w] # "sendExhausted" /\ pc'[w] = "sendExhausted")
                  => (pc[w] = "prompting"
                        /\ apiManager.current >= Len(apiManager.credentials))]_vars

\* one worker was refused after an empty prompt, another was served the
\* credential its prompt appended
C16_Witness ==
    \E w1, w2 \in Smarty :
        /\ pc[w1] = "sendExhausted"
        /\ pc[w2] = "call" /\ cred[w2] = Len(apiManager.credentials)
        /\ Len(apiManager.credentials) = obs.loaded + 1
        /\ apiManager.usageCount = 1

\* the step in which GetCredentials returns a credential to worker w
ServeStep(w) == pc[w] \in {"acquire", "prompting"} /\ pc'[w] = "call"

\* C17: the usage counter never exceeds the quota, no credential is returned by
\* GetCredentials more than quota times in total, and a credential the cursor has
\* moved past is never returned again.
C17_QuotaInvariant ==
    /\ [](apiManager.usageCount <= apiManager.maxUsage)
    /\ [](\A i \in 1 .. Len(obs.served) : obs.served[i] <= apiManager.maxUsage)
    /\ [][\A w \in Smarty :
            ServeStep(w) => /\ cred'[w] = apiManager'.current + 1
                            /\ cred'[w] > apiManager.current]_vars

\* with quota 2: the first credential was returned twice, the cursor has moved
\* past it after InvalidateCurrent calls, and a later credential is in use
C17_Witness ==
    /\ apiManager.maxUsage = 2 /\ Len(obs.served) = 3
    /\ obs.served[1] = 2 /\ obs.served[3] = 1
    /\ apiManager.current = 2 /\ apiManager.usageCount = 1
    /\ \E w \in Smarty : obs.invCalls[w] >= 1

\* C18: an exhaustion of the pool is handled once: after a prompt has returned no
\* credential, no GetCredentials call asks the user again for that exhaustion
\* (the credential sequence is as long as it was when the prompt returned).
C18_ExhaustionHandledOnce ==
    \A w \in Smarty :
        pc[w] = "prompting" => obs.declinedAt # Len(apiManager.credentials)

Prompting == {w \in Smarty : pc[w] = "prompting"}

\* C19: the pool's operations exclude one another: at most one prompt is in
\* progress, its caller holds the mutex, and until it returns no other caller
\* gets past Lock(): the pool is not changed, no GetCredentials returns, no
\* InvalidateCurrent runs and GetAllCredentials does not return.
C19_PoolMutualExclusion ==
    /\ [](Cardinality(Prompting) <= 1)
    /\ [](\A w \in Smarty : (pc[w] = "prompting") <=> (mutex = w))
    /\ [][\A w \in Smarty :
            (pc[w] = "prompting" /\ pc'[w] = "prompting")
                => /\ apiManager' = apiManager
                   /\ obs'.served = obs.served
                   /\ \A v \in Smarty : /\ pc[v] = "acquire" => pc'[v] = "acquire"
                                         /\ ~ InvalidateStep(v)
                   /\ savedCredentials' = savedCredentials
                   /\ mainPc = "save" => mainPc' = "save"]_vars

\* one worker is at the prompt while a second waits in GetCredentials and the
\* GetAllCredentials call is pending
C19_Witness ==
    \E w1, w2 \in Smarty :
        /\ pc[w1] = "prompting" /\ pc[w2] = "acquire" /\ attempt[w2] >= 1
        /\ mainPc = "save"

====
